---------------------------- MODULE Spec2Model ----------------------------
(***************************************************************************)
(* Model of the coupon service of src/main.py: the in-memory coupon store, *)
(* the eligibility evaluator, the discount calculator, best-coupon         *)
(* selection, redemption and coupon creation.                              *)
(*                                                                         *)
(* Representation.                                                         *)
(*  - Money (float in the source) is fixed point, in mills: 1000 mills are *)
(*    one currency unit, so two decimals are a multiple of 10 mills.       *)
(*  - A str is the sequence of its code points ("B" is <<66>>).            *)
(*  - Optional[T] is a sequence of length at most one: <<>> is None and    *)
(*    <<v>> is the value v.  An Optional[List[str]] that is present and    *)
(*    empty is therefore << <<>> >>.                                       *)
(*  - A datetime is an integer instant; now_utc() reads the variable now,   *)
(*    which stands still while one request is handled.                     *)
(*  - uuid4() is a counter of fresh identifiers.                           *)
(*                                                                         *)
(* Scope.  Three specifications share the definitions: Spec is the service *)
(* handling one request at a time (create, best-coupon, redeem), SpecEval  *)
(* calls the eligibility evaluator and the discount calculator directly on *)
(* a wider range of coupon definitions, and SpecConc runs redeem in two    *)
(* request threads.  GET /coupons, POST /login, the startup seeding, the   *)
(* description field and the attachment of UTC to naive datetimes are left *)
(* out: none of them changes a ledger or takes part in a gate.  The store  *)
(* starts empty, as at line 85.  Amounts whose third decimal is exactly 5  *)
(* do not occur, so the rounding of ties plays no part.                    *)
(***************************************************************************)
EXTENDS Integers, Sequences, FiniteSets

VARIABLES
    coupons,    \* the dict coupons: normalized code -> CouponStored
    order,      \* insertion order of the dict's keys (Python dicts keep it)
    nextId,     \* stands for uuid4(): the next fresh identifier
    now,        \* the clock read by now_utc()
    req,        \* the last request an endpoint handled
    resp,       \* the response it sent
    succeeded,  \* history: number of "Redeemed" responses per <<key, userId>>
    threads,    \* position and locals of each request thread inside redeem
    probe       \* inputs and outputs of a direct call of a pure helper

vars == <<coupons, order, nextId, now, req, resp, succeeded, threads, probe>>

(***************************************************************************)
(* Bounds of the model.                                                    *)
(***************************************************************************)
MaxTime == 1
MaxUses == 2

None == <<>>
Some(v) == <<v>>
IsNone(o) == o = <<>>
Val(o) == o[1]

Min(a, b) == IF a <= b THEN a ELSE b

RECURSIVE SumSeq(_)
SumSeq(s) == IF s = <<>> THEN 0 ELSE Head(s) + SumSeq(Tail(s))

Range(s) == {s[i] : i \in 1..Len(s)}

(***************************************************************************)
(* str.strip(), str.upper() and the comparison of two str.                 *)
(***************************************************************************)
IsSpace(ch) == ch = 32

Upper(ch) == IF ch >= 97 /\ ch <= 122 THEN ch - 32 ELSE ch

RECURSIVE LStrip(_)
LStrip(s) == IF s # <<>> /\ IsSpace(Head(s)) THEN LStrip(Tail(s)) ELSE s

RECURSIVE RStrip(_)
RStrip(s) ==
    IF s # <<>> /\ IsSpace(s[Len(s)]) THEN RStrip(SubSeq(s, 1, Len(s) - 1)) ELSE s

Strip(s) == RStrip(LStrip(s))

UpperStr(s) == [i \in 1..Len(s) |-> Upper(s[i])]

\* code.strip().upper()
Normalize(code) == UpperStr(Strip(code))

RECURSIVE StrLess(_, _)
StrLess(s, t) ==
    IF t = <<>> THEN FALSE
    ELSE IF s = <<>> THEN TRUE
    ELSE IF Head(s) # Head(t) THEN Head(s) < Head(t)
    ELSE StrLess(Tail(s), Tail(t))

(***************************************************************************)
(* Helpers (main.py, "Helpers").                                           *)
(***************************************************************************)
compute_cart_value(cart) ==
    SumSeq([i \in 1..Len(cart) |-> cart[i].unitPrice * cart[i].quantity])

total_items_count(cart) ==
    SumSeq([i \in 1..Len(cart) |-> cart[i].quantity])

categories_in_cart(cart) == [i \in 1..Len(cart) |-> cart[i].category]

coupon_within_dates(c, n) == c.startDate <= n /\ n <= c.endDate

\* c.usage_count.get(userId, 0)
UsageGet(c, userId) ==
    IF userId \in DOMAIN c.usage_count THEN c.usage_count[userId] ELSE 0

\* Variant with the comparison off by one (<= for <): one use too many.
usage_within_limit_inclusive(c, userId) ==
    IF IsNone(c.usageLimitPerUser) THEN TRUE
    ELSE UsageGet(c, userId) <= Val(c.usageLimitPerUser)

usage_within_limit(c, userId) ==
    IF IsNone(c.usageLimitPerUser) THEN TRUE
    ELSE UsageGet(c, userId) < Val(c.usageLimitPerUser)

\* Variant that tests "is not None" instead of the truth value.
Truthy_is_not_None(optList) == ~IsNone(optList)

\* Python truth value of an Optional[List[str]]: None and [] are both false.
Truthy(optList) == ~IsNone(optList) /\ Val(optList) # <<>>

\* (x or 0) for an Optional number
OrZero(opt) == IF IsNone(opt) THEN 0 ELSE Val(opt)

\* user.userTier not in e.allowedUserTiers (None is in no List[str])
NotIn(optStr, list) == IsNone(optStr) \/ Val(optStr) \notin Range(list)

eligibility_satisfied(c, user, cart) ==
    IF IsNone(c.eligibility) THEN TRUE
    ELSE LET e == Val(c.eligibility)
             cart_value == compute_cart_value(cart)
             cart_categories == Range(categories_in_cart(cart))
         IN  IF Truthy(e.allowedUserTiers)
                  /\ NotIn(user.userTier, Val(e.allowedUserTiers)) THEN FALSE
             ELSE IF ~IsNone(e.minLifetimeSpend)
                  /\ OrZero(user.lifetimeSpend) < Val(e.minLifetimeSpend) THEN FALSE
             ELSE IF ~IsNone(e.minOrdersPlaced)
                  /\ OrZero(user.ordersPlaced) < Val(e.minOrdersPlaced) THEN FALSE
             ELSE IF e.firstOrderOnly = Some(TRUE)
                  /\ OrZero(user.ordersPlaced) # 0 THEN FALSE
             ELSE IF Truthy(e.allowedCountries)
                  /\ NotIn(user.country, Val(e.allowedCountries)) THEN FALSE
             ELSE IF ~IsNone(e.minCartValue)
                  /\ cart_value < Val(e.minCartValue) THEN FALSE
             ELSE IF Truthy(e.applicableCategories)
                  /\ cart_categories \cap Range(Val(e.applicableCategories)) = {}
                  THEN FALSE
             ELSE IF Truthy(e.excludedCategories)
                  /\ cart_categories \cap Range(Val(e.excludedCategories)) # {}
                  THEN FALSE
             ELSE IF ~IsNone(e.minItemsCount)
                  /\ total_items_count(cart) < Val(e.minItemsCount) THEN FALSE
             ELSE TRUE

\* (discountValue / 100.0) * cart_value, all three in mills; the quotient is
\* exact for every discountValue and cart of this model.
PercentOf(discountValue, cart_value) == (discountValue * cart_value) \div 100000

compute_discount_amount(c, cart_value) ==
    IF c.discountType = "FLAT" THEN Min(cart_value, c.discountValue)
    ELSE LET raw == PercentOf(c.discountValue, cart_value)
         IN  IF ~IsNone(c.maxDiscountAmount)
             THEN Min(raw, Val(c.maxDiscountAmount))
             ELSE raw

\* Variant of the gate that lets a discount of exactly 0 through.
zero_discount_negative_only(discount) == discount < 0

\* if discount <= 0: the zero-discount gate of best_coupon and of redeem
zero_discount(discount) == discount <= 0

\* round(float(discount), 2): to the nearest multiple of 10 mills, a tie
\* going to the even cent.
Round2(x) ==
    LET q == x \div 10
        r == x % 10
    IN  IF r < 5 THEN 10 * q
        ELSE IF r > 5 THEN 10 * (q + 1)
        ELSE IF q % 2 = 0 THEN 10 * q ELSE 10 * (q + 1)


(***************************************************************************)
(* Request data: the users, carts and coupon definitions that requests     *)
(* carry.                                                                  *)
(***************************************************************************)
User(id, tier, country, spend, orders) ==
    [userId |-> id, userTier |-> tier, country |-> country,
     lifetimeSpend |-> spend, ordersPlaced |-> orders]

Users ==
    { User("u1", Some("GOLD"), Some("IN"), Some(10000000), Some(5)),
      User("u2", None, None, None, Some(0)) }

CartItem(pid, cat, price, qty) ==
    [productId |-> pid, category |-> cat, unitPrice |-> price, quantity |-> qty]

EmptyCart == <<>>
SmallCart == << CartItem("p1", "food", 400, 1) >>
BigCart == << CartItem("p2", "fashion", 3000, 2) >>

Carts == {EmptyCart, SmallCart, BigCart}

\* Eligibility() with every field left at its default
Eligibility ==
    [allowedUserTiers |-> None, minLifetimeSpend |-> None,
     minOrdersPlaced |-> None, firstOrderOnly |-> None,
     allowedCountries |-> None, minCartValue |-> None,
     applicableCategories |-> None, excludedCategories |-> None,
     minItemsCount |-> None]

CouponIn(code, type, value, cap, start, end, limit, elig) ==
    [code |-> code, discountType |-> type, discountValue |-> value,
     maxDiscountAmount |-> cap, startDate |-> start, endDate |-> end,
     usageLimitPerUser |-> limit, eligibility |-> elig]

\* The codes requests name: "b" and " c "
RawCodes == { <<98>>, <<32, 99, 32>> }

GoldBigCart ==
    Some([Eligibility EXCEPT !.allowedUserTiers = Some(<<"GOLD">>),
                             !.minCartValue = Some(1000)])

Returning == Some([Eligibility EXCEPT !.minOrdersPlaced = Some(1)])

\* The coupon definitions that the validators of CouponIn accept, for a code.
CouponsFor(code) ==
    { CouponIn(code, "FLAT", 2000, None, 0, 0, Some(1), None),
      CouponIn(code, "PERCENT", 50000, Some(2000), 0, MaxTime, Some(2), GoldBigCart),
      CouponIn(code, "PERCENT", 1000, None, MaxTime, MaxTime, None, Returning),
      CouponIn(code, "FLAT", 2000, Some(-1000), 0, MaxTime, Some(-1), None) }

\* One more under the code "C", and two definitions that the validators
\* reject.
OtherInputs ==
    { CouponIn(<<67>>, "FLAT", 2000, None, 0, 0, Some(1), None),
      CouponIn(<<98>>, "FLAT", 0, None, 0, 0, None, None),
      CouponIn(<<67>>, "FLAT", 2000, None, MaxTime, 0, None, None) }

CouponInputs == UNION { CouponsFor(code) : code \in RawCodes } \cup OtherInputs

\* Field(..., gt=0) on discountValue and the validator end_after_start
CouponIn_valid(coupon) ==
    /\ coupon.discountValue > 0
    /\ ~(coupon.endDate < coupon.startDate)

(***************************************************************************)
(* Responses.                                                              *)
(***************************************************************************)
Response(op, status, detail, coupon, code, amount) ==
    [op |-> op, status |-> status, detail |-> detail, coupon |-> coupon,
     code |-> code, discountAmount |-> amount]

NoResponse == Response("none", 0, "", None, None, None)

\* HTTPException(status, detail)
HTTPException(op, status, detail) == Response(op, status, detail, None, None, None)

\* A dict with key k set to v
Put(d, k, v) == [x \in DOMAIN d \cup {k} |-> IF x = k THEN v ELSE d[x]]

EmptyDict == [x \in {} |-> 0]

(***************************************************************************)
(* POST /coupons                                                           *)
(***************************************************************************)
CouponStored(coupon, id) ==
    [code |-> coupon.code, discountType |-> coupon.discountType,
     discountValue |-> coupon.discountValue,
     maxDiscountAmount |-> coupon.maxDiscountAmount,
     startDate |-> coupon.startDate, endDate |-> coupon.endDate,
     usageLimitPerUser |-> coupon.usageLimitPerUser,
     eligibility |-> coupon.eligibility, id |-> id, usage_count |-> EmptyDict]

\* Variant without the duplicate check: an upsert.
create_coupon_upsert(store, ord, id, coupon) ==
    LET code == Normalize(coupon.code)
        stored == CouponStored(coupon, id)
    IN  IF ~CouponIn_valid(coupon)
        THEN [coupons |-> store, order |-> ord, nextId |-> id,
              resp |-> HTTPException("create", 422, "validation error")]
        ELSE [coupons |-> Put(store, code, stored),
              order |-> IF code \in DOMAIN store THEN ord ELSE Append(ord, code),
              nextId |-> id + 1,
              resp |-> Response("create", 200, "", Some(stored), None, None)]

\* The handler's effect on the store and its response.
create_coupon(store, ord, id, coupon) ==
    LET code == Normalize(coupon.code)
        stored == CouponStored(coupon, id)
    IN  IF ~CouponIn_valid(coupon)
        THEN [coupons |-> store, order |-> ord, nextId |-> id,
              resp |-> HTTPException("create", 422, "validation error")]
        ELSE IF code \in DOMAIN store
        THEN [coupons |-> store, order |-> ord, nextId |-> id,
              resp |-> HTTPException("create", 400, "already exists")]
        ELSE [coupons |-> Put(store, code, stored), order |-> Append(ord, code),
              nextId |-> id + 1,
              resp |-> Response("create", 200, "", Some(stored), None, None)]

(***************************************************************************)
(* POST /best-coupon                                                       *)
(***************************************************************************)
\* The loop over coupons.items(): the (coupon, rounded discount) pairs that
\* pass the four gates, in the dict's order.
RECURSIVE eligible_candidates(_, _, _, _, _)
eligible_candidates(store, ord, user, cart, n) ==
    IF ord = <<>> THEN <<>>
    ELSE LET c == store[Head(ord)]
             rest == eligible_candidates(store, Tail(ord), user, cart, n)
             discount == compute_discount_amount(c, compute_cart_value(cart))
         IN  IF ~coupon_within_dates(c, n) THEN rest
             ELSE IF ~usage_within_limit(c, user.userId) THEN rest
             ELSE IF ~eligibility_satisfied(c, user, cart) THEN rest
             ELSE IF zero_discount(discount) THEN rest
             ELSE << [c |-> c, discount |-> Round2(discount)] >> \o rest

\* sort_key(a) < sort_key(b) for the tuples (-discount, c.endDate, c.code)
sort_key_less(a, b) ==
    \/ a.discount > b.discount
    \/ /\ a.discount = b.discount
       /\ \/ a.c.endDate < b.c.endDate
          \/ /\ a.c.endDate = b.c.endDate
             /\ StrLess(a.c.code, b.c.code)

\* list.sort(key=sort_key) is stable: a pair goes behind the pairs whose key
\* is not greater.
RECURSIVE SortedInsert(_, _)
SortedInsert(x, s) ==
    IF s = <<>> THEN <<x>>
    ELSE IF sort_key_less(x, Head(s)) THEN <<x>> \o s
    ELSE <<Head(s)>> \o SortedInsert(x, Tail(s))

RECURSIVE SortInto(_, _)
SortInto(s, acc) ==
    IF s = <<>> THEN acc ELSE SortInto(Tail(s), SortedInsert(Head(s), acc))

Sort(s) == SortInto(s, <<>>)

\* best_c.dict() with usage_count popped
coupon_out(c) == [f \in DOMAIN c \ {"usage_count"} |-> c[f]]

best_coupon(store, ord, user, cart, n) ==
    LET cands == eligible_candidates(store, ord, user, cart, n)
        best == Head(Sort(cands))
    IN  IF cands = <<>>
        THEN Response("best", 200, "No eligible coupons", None, None, Some(0))
        ELSE Response("best", 200, "OK", Some(coupon_out(best.c)), None,
                      Some(best.discount))

(***************************************************************************)
(* POST /redeem/{code}                                                     *)
(***************************************************************************)
\* c.usage_count[userId] = c.usage_count.get(userId, 0) + 1
Increment(c, userId) ==
    [c EXCEPT !.usage_count = Put(c.usage_count, userId, UsageGet(c, userId) + 1)]

\* Variant that increments the ledger before the zero-discount gate.
redeem_increment_early(store, rawCode, user, cart, n) ==
    LET code == Normalize(rawCode)
        c == store[code]
        discount == compute_discount_amount(c, compute_cart_value(cart))
        counted == Put(store, code, Increment(c, user.userId))
    IN  IF code \notin DOMAIN store
        THEN [coupons |-> store,
              resp |-> HTTPException("redeem", 404, "Coupon not found")]
        ELSE IF ~coupon_within_dates(c, n)
        THEN [coupons |-> store,
              resp |-> HTTPException("redeem", 400, "date window")]
        ELSE IF ~usage_within_limit(c, user.userId)
        THEN [coupons |-> store,
              resp |-> HTTPException("redeem", 400, "usage limit")]
        ELSE IF ~eligibility_satisfied(c, user, cart)
        THEN [coupons |-> store,
              resp |-> HTTPException("redeem", 400, "eligibility")]
        ELSE IF zero_discount(discount)
        THEN [coupons |-> counted,
              resp |-> HTTPException("redeem", 400, "zero discount")]
        ELSE [coupons |-> counted,
              resp |-> Response("redeem", 200, "Redeemed", None, Some(c.code),
                                Some(Round2(discount)))]

\* Variant that tests the usage limit before the date window.
redeem_usage_first(store, rawCode, user, cart, n) ==
    LET code == Normalize(rawCode)
        c == store[code]
        discount == compute_discount_amount(c, compute_cart_value(cart))
    IN  IF code \notin DOMAIN store
        THEN [coupons |-> store,
              resp |-> HTTPException("redeem", 404, "Coupon not found")]
        ELSE IF ~usage_within_limit(c, user.userId)
        THEN [coupons |-> store,
              resp |-> HTTPException("redeem", 400, "usage limit")]
        ELSE IF ~coupon_within_dates(c, n)
        THEN [coupons |-> store,
              resp |-> HTTPException("redeem", 400, "date window")]
        ELSE IF ~eligibility_satisfied(c, user, cart)
        THEN [coupons |-> store,
              resp |-> HTTPException("redeem", 400, "eligibility")]
        ELSE IF zero_discount(discount)
        THEN [coupons |-> store,
              resp |-> HTTPException("redeem", 400, "zero discount")]
        ELSE [coupons |-> Put(store, code, Increment(c, user.userId)),
              resp |-> Response("redeem", 200, "Redeemed", None, Some(c.code),
                                Some(Round2(discount)))]

\* The handler's effect on the store and its response.
redeem(store, rawCode, user, cart, n) ==
    LET code == Normalize(rawCode)
        c == store[code]
        discount == compute_discount_amount(c, compute_cart_value(cart))
    IN  IF code \notin DOMAIN store
        THEN [coupons |-> store,
              resp |-> HTTPException("redeem", 404, "Coupon not found")]
        ELSE IF ~coupon_within_dates(c, n)
        THEN [coupons |-> store,
              resp |-> HTTPException("redeem", 400, "date window")]
        ELSE IF ~usage_within_limit(c, user.userId)
        THEN [coupons |-> store,
              resp |-> HTTPException("redeem", 400, "usage limit")]
        ELSE IF ~eligibility_satisfied(c, user, cart)
        THEN [coupons |-> store,
              resp |-> HTTPException("redeem", 400, "eligibility")]
        ELSE IF zero_discount(discount)
        THEN [coupons |-> store,
              resp |-> HTTPException("redeem", 400, "zero discount")]
        ELSE [coupons |-> Put(store, code, Increment(c, user.userId)),
              resp |-> Response("redeem", 200, "Redeemed", None, Some(c.code),
                                Some(Round2(discount)))]

(***************************************************************************)
(* The service handling one request at a time.                             *)
(***************************************************************************)
NoRequest == [op |-> "none"]

Idle == [pc |-> "idle"]

ThreadIds == {1, 2}

NoProbe == [stage |-> "none"]

Init ==
    /\ coupons = EmptyDict
    /\ order = <<>>
    /\ nextId = 1
    /\ now = 0
    /\ req = NoRequest
    /\ resp = NoResponse
    /\ succeeded = EmptyDict
    /\ threads = [t \in ThreadIds |-> Idle]
    /\ probe = NoProbe

Create(coupon) ==
    LET r == create_coupon(coupons, order, nextId, coupon)
    IN  /\ coupons' = r.coupons
        /\ order' = r.order
        /\ nextId' = r.nextId
        /\ req' = [op |-> "create", coupon |-> coupon]
        /\ resp' = r.resp
        /\ UNCHANGED <<now, succeeded, threads, probe>>

\* Variant that counts the winner as used by the user.
BestCoupon_counting(user, cart) ==
    LET r == best_coupon(coupons, order, user, cart, now)
        key == Normalize(Val(r.coupon).code)
    IN  /\ req' = [op |-> "best", user |-> user, cart |-> cart]
        /\ resp' = r
        /\ coupons' = IF IsNone(r.coupon) THEN coupons
                      ELSE Put(coupons, key, Increment(coupons[key], user.userId))
        /\ UNCHANGED <<order, nextId, now, succeeded, threads, probe>>

BestCoupon(user, cart) ==
    /\ req' = [op |-> "best", user |-> user, cart |-> cart]
    /\ resp' = best_coupon(coupons, order, user, cart, now)
    /\ UNCHANGED <<coupons, order, nextId, now, succeeded, threads, probe>>

\* succeeded.get((key, userId), 0)
SucceededGet(key, userId) ==
    IF <<key, userId>> \in DOMAIN succeeded THEN succeeded[<<key, userId>>] ELSE 0

Redeem(rawCode, user, cart) ==
    LET r == redeem(coupons, rawCode, user, cart, now)
        key == Normalize(rawCode)
    IN  /\ r.resp.status = 200 => SucceededGet(key, user.userId) < MaxUses
        /\ coupons' = r.coupons
        /\ req' = [op |-> "redeem", code |-> rawCode, user |-> user, cart |-> cart]
        /\ resp' = r.resp
        /\ succeeded' =
              IF r.resp.status = 200
              THEN Put(succeeded, <<key, user.userId>>,
                       SucceededGet(key, user.userId) + 1)
              ELSE succeeded
        /\ UNCHANGED <<order, nextId, now, threads, probe>>

\* Time passes between two requests.
Tick ==
    /\ now < MaxTime
    /\ now' = now + 1
    /\ UNCHANGED <<coupons, order, nextId, req, resp, succeeded, threads, probe>>

Next ==
    \/ \E coupon \in CouponInputs : Create(coupon)
    \/ \E user \in Users, cart \in Carts : BestCoupon(user, cart)
    \/ \E rawCode \in RawCodes, user \in Users, cart \in Carts :
          Redeem(rawCode, user, cart)
    \/ Tick

Spec == Init /\ [][Next]_vars

(***************************************************************************)
(* Properties of the service handling one request at a time.               *)
(***************************************************************************)
Max(a, b) == IF a >= b THEN a ELSE b

Limit(c) == Val(c.usageLimitPerUser)

HasLimit(c) == ~IsNone(c.usageLimitPerUser)

\* The step is the handling of a request of this kind (the clock stands
\* still while a request is handled).
CreateStep == req'.op = "create" /\ now' = now
BestStep == req'.op = "best" /\ now' = now
RedeemStep == req'.op = "redeem" /\ now' = now

\* Every ledger entry other than that of userId on key is what it was.
OthersUnchanged(key, userId) ==
    /\ DOMAIN coupons' = DOMAIN coupons
    /\ \A k \in DOMAIN coupons, u \in Users :
          <<k, u.userId>> # <<key, userId>>
              => UsageGet(coupons'[k], u.userId) = UsageGet(coupons[k], u.userId)

\* C1 as stated: a successful redeem adds exactly 1 to the user's count on the
\* coupon; once the user has N = usageLimitPerUser successful redemptions,
\* every further redeem of that coupon by that user fails with the
\* usage-limit reason and leaves the count at N; the count never exceeds N.
C1_AsStated ==
    [][(RedeemStep /\ Normalize(req'.code) \in DOMAIN coupons) =>
          LET key == Normalize(req'.code)
              userId == req'.user.userId
              c == coupons[key]
              before == UsageGet(c, userId)
              after == UsageGet(coupons'[key], userId)
          IN  /\ resp'.status = 200 => after = before + 1
              /\ (HasLimit(c) /\ SucceededGet(key, userId) = Limit(c)) =>
                    /\ resp'.status = 400
                    /\ resp'.detail = "usage limit"
                    /\ after = Limit(c)
              /\ (HasLimit(c) /\ Limit(c) >= 0) => after <= Limit(c)]_vars

\* C1, amended: a successful redeem adds exactly 1 to the user's count on the
\* coupon and changes no other count; a failed one changes none; once the
\* count has reached N = usageLimitPerUser every further redeem of that coupon
\* by that user fails and leaves the count where it is, with the usage-limit
\* reason while the coupon is inside its date window and with the date-window
\* reason outside it; the count never exceeds N (0 for a negative N).
C1_RedemptionMonotonic ==
    [][(RedeemStep /\ Normalize(req'.code) \in DOMAIN coupons) =>
          LET key == Normalize(req'.code)
              userId == req'.user.userId
              c == coupons[key]
              before == UsageGet(c, userId)
              after == UsageGet(coupons'[key], userId)
          IN  /\ OthersUnchanged(key, userId)
              /\ resp'.status = 200 => after = before + 1
              /\ resp'.status # 200 => after = before
              /\ (HasLimit(c) /\ before >= Limit(c)) =>
                    /\ resp'.status = 400
                    /\ resp'.detail = IF coupon_within_dates(c, now)
                                      THEN "usage limit" ELSE "date window"
                    /\ after = before
              /\ HasLimit(c) => after <= Max(Limit(c), 0)]_vars

\* A user has used a coupon up to its limit of 2 and was then refused for it
\* with the usage-limit reason.
C1_Witness ==
    /\ req.op = "redeem"
    /\ resp.detail = "usage limit"
    /\ Normalize(req.code) \in DOMAIN coupons
    /\ coupons[Normalize(req.code)].usageLimitPerUser = Some(2)
    /\ UsageGet(coupons[Normalize(req.code)], req.user.userId) = 2

\* The stored coupons that pass the four gates for a request.
Survivors(user, cart) ==
    { k \in DOMAIN coupons :
          /\ coupon_within_dates(coupons[k], now)
          /\ usage_within_limit(coupons[k], user.userId)
          /\ eligibility_satisfied(coupons[k], user, cart)
          /\ compute_discount_amount(coupons[k], compute_cart_value(cart)) > 0 }

RoundedAmount(k, cart) ==
    Round2(compute_discount_amount(coupons[k], compute_cart_value(cart)))

\* a ranks before b: higher rounded amount, then earlier endDate, then the
\* smaller normalized code (the store's key).
RanksBefore(a, b, cart) ==
    \/ RoundedAmount(a, cart) > RoundedAmount(b, cart)
    \/ /\ RoundedAmount(a, cart) = RoundedAmount(b, cart)
       /\ \/ coupons[a].endDate < coupons[b].endDate
          \/ /\ coupons[a].endDate = coupons[b].endDate
             /\ StrLess(a, b)

\* C2: when some stored coupon passes all gates, best-coupon returns the one
\* survivor that ranks before every other by (rounded amount descending,
\* endDate ascending, normalized code ascending), whatever the creation order.
C2_OrderingLaw ==
    [][(BestStep /\ Survivors(req'.user, req'.cart) # {}) =>
          \E w \in Survivors(req'.user, req'.cart) :
              /\ \A k \in Survivors(req'.user, req'.cart) \ {w} :
                    RanksBefore(w, k, req'.cart)
              /\ resp'.coupon = Some(coupon_out(coupons[w]))
              /\ resp'.discountAmount = Some(RoundedAmount(w, req'.cart))]_vars

\* C4: a redeem that fails leaves the stored coupons and every ledger as they
\* were, and a redeem of a stored coupon after its endDate fails with the
\* date-window reason.
C4_FailedRedeemNoEffect ==
    [][RedeemStep =>
          /\ resp'.status # 200 => (coupons' = coupons /\ order' = order)
          /\ (Normalize(req'.code) \in DOMAIN coupons
                /\ now > coupons[Normalize(req'.code)].endDate) =>
                (resp'.status = 400 /\ resp'.detail = "date window")]_vars

\* A redeem of a coupon that is past its endDate and has a ledger entry was
\* refused for the date window.
C4_Witness ==
    /\ req.op = "redeem"
    /\ resp.detail = "date window"
    /\ Normalize(req.code) \in DOMAIN coupons
    /\ now > coupons[Normalize(req.code)].endDate
    /\ DOMAIN coupons[Normalize(req.code)].usage_count # {}

\* Each key of the store is the normalized code of the coupon stored under it,
\* and the insertion order lists each key once.
StoreKeyedByNormalizedCode ==
    /\ \A k \in DOMAIN coupons : k = Normalize(coupons[k].code)
    /\ Len(order) = Cardinality(DOMAIN coupons)
    /\ Range(order) = DOMAIN coupons

\* C5: a create whose normalized code is already a key fails with the
\* duplicate-code error and changes nothing; no create ever changes or
\* removes a stored coupon (definition, id, ledger); the store holds one
\* coupon per normalized code.
C5_CreateNeverOverwrites ==
    [][CreateStep =>
          /\ (CouponIn_valid(req'.coupon)
                /\ Normalize(req'.coupon.code) \in DOMAIN coupons) =>
                /\ resp'.status = 400
                /\ resp'.detail = "already exists"
                /\ coupons' = coupons
                /\ order' = order
          /\ \A k \in DOMAIN coupons :
                k \in DOMAIN coupons' /\ coupons'[k] = coupons[k]
          /\ StoreKeyedByNormalizedCode']_vars

\* A create under the code "C" was refused as a duplicate of the coupon
\* stored as " c ", which has a ledger entry.
C5_Witness ==
    /\ req.op = "create"
    /\ req.coupon.code = <<67>>
    /\ resp.status = 400
    /\ <<67>> \in DOMAIN coupons
    /\ coupons[<<67>>].code = <<32, 99, 32>>
    /\ DOMAIN coupons[<<67>>].usage_count # {}

\* C8: best-coupon leaves the stored coupons and their ledgers as they are,
\* and the same request at the same time, right after it, gets the same
\* response.
C8_BestCouponReadOnly ==
    [][BestStep =>
          /\ coupons' = coupons
          /\ order' = order
          /\ best_coupon(coupons', order', req'.user, req'.cart, now') = resp']_vars

\* Best-coupon returned a winner that the user has one use left of.
C8_Witness ==
    /\ req.op = "best"
    /\ ~IsNone(resp.coupon)
    /\ \E k \in DOMAIN coupons :
          /\ coupon_out(coupons[k]) = Val(resp.coupon)
          /\ HasLimit(coupons[k])
          /\ UsageGet(coupons[k], req.user.userId) + 1 = Limit(coupons[k])

\* C9: redeem reports not-found for an unknown normalized code, and for a
\* stored coupon the reason of the first gate that fails in the order date
\* window, usage limit, eligibility, zero discount, whatever the later gates
\* would say; it succeeds only when all four pass.
C9_GateOrder ==
    [][RedeemStep =>
          LET key == Normalize(req'.code)
              c == coupons[key]
              dates == coupon_within_dates(c, now)
              usage == usage_within_limit(c, req'.user.userId)
              elig == eligibility_satisfied(c, req'.user, req'.cart)
              pos == compute_discount_amount(c, compute_cart_value(req'.cart)) > 0
          IN  /\ key \notin DOMAIN coupons =>
                    (resp'.status = 404 /\ resp'.detail = "Coupon not found")
              /\ key \in DOMAIN coupons =>
                    /\ ~dates => resp'.detail = "date window"
                    /\ (dates /\ ~usage) => resp'.detail = "usage limit"
                    /\ (dates /\ usage /\ ~elig) => resp'.detail = "eligibility"
                    /\ (dates /\ usage /\ elig /\ ~pos) =>
                          resp'.detail = "zero discount"
                    /\ (dates /\ usage /\ elig /\ pos) <=> resp'.status = 200
                    /\ resp'.status # 200 => resp'.status = 400]_vars

\* A redeem was refused for the date window although the coupon was also used
\* up by the user, who does not satisfy its eligibility either, with a cart
\* that yields no discount.
C9_Witness ==
    /\ req.op = "redeem"
    /\ resp.detail = "date window"
    /\ Normalize(req.code) \in DOMAIN coupons
    /\ LET c == coupons[Normalize(req.code)]
       IN  /\ ~coupon_within_dates(c, now)
           /\ UsageGet(c, req.user.userId) > 0
           /\ ~usage_within_limit(c, req.user.userId)
           /\ compute_discount_amount(c, compute_cart_value(req.cart)) <= 0

\* A response that reports a coupon as best or as redeemed.
Successful ==
    \/ req.op = "best" /\ ~IsNone(resp.coupon)
    \/ req.op = "redeem" /\ resp.status = 200

\* C10 as stated: every successful outcome reports a rounded amount > 0.
C10_AsStated == Successful => Val(resp.discountAmount) > 0

\* C10, amended: in every successful outcome the amount before rounding is
\* > 0 and the reported amount is that amount rounded to two decimals, which
\* is >= 0 and is 0.00 when the amount is below half a cent.
C10_PositiveBeforeRounding ==
    [][/\ (BestStep /\ ~IsNone(resp'.coupon)) =>
             LET d == compute_discount_amount(Val(resp'.coupon),
                                              compute_cart_value(req'.cart))
             IN  /\ d > 0
                 /\ resp'.discountAmount = Some(Round2(d))
                 /\ Round2(d) >= 0
                 /\ d < 5 => Round2(d) = 0
       /\ (RedeemStep /\ resp'.status = 200) =>
             LET d == compute_discount_amount(coupons[Normalize(req'.code)],
                                              compute_cart_value(req'.cart))
             IN  /\ d > 0
                 /\ resp'.discountAmount = Some(Round2(d))
                 /\ Round2(d) >= 0
                 /\ d < 5 => Round2(d) = 0]_vars

\* A redeem succeeded and reported 0.00.
C10_Witness ==
    /\ req.op = "redeem"
    /\ resp.status = 200
    /\ resp.discountAmount = Some(0)

(***************************************************************************)
(* The pure helpers called directly: the inputs are drawn by the initial   *)
(* predicate and each action applies one helper to them.                   *)
(***************************************************************************)
EvalUsers == Users \cup { User("u3", Some("REGULAR"), Some("US"), Some(0), None) }

EvalEligibilities ==
    { Some([allowedUserTiers |-> tiers, minLifetimeSpend |-> spend,
            minOrdersPlaced |-> orders, firstOrderOnly |-> first,
            allowedCountries |-> countries, minCartValue |-> value,
            applicableCategories |-> applicable, excludedCategories |-> excluded,
            minItemsCount |-> items]) :
        tiers \in {None, Some(<<>>), Some(<<"GOLD">>)},
        spend \in {None, Some(1000)},
        orders \in {None, Some(1)},
        first \in {None, Some(TRUE)},
        countries \in {None, Some(<<>>), Some(<<"IN">>)},
        value \in {None, Some(1000)},
        applicable \in {None, Some(<<>>), Some(<<"fashion">>)},
        excluded \in {None, Some(<<"food">>)},
        items \in {None, Some(2)} }

\* Coupon definitions: every discount shape without eligibility rules, and
\* every eligibility rule set on one discount shape.
EvalCoupons ==
    { c \in { CouponIn(<<98>>, type, value, cap, 0, MaxTime, None, None) :
                type \in {"FLAT", "PERCENT"},
                value \in {0, 1000, 2000, 50000},
                cap \in {None, Some(0), Some(2000), Some(-1000)} }
            \cup
            { CouponIn(<<98>>, "FLAT", 2000, None, 0, MaxTime, None, e) :
                e \in EvalEligibilities } :
        CouponIn_valid(c) }

InitEval ==
    /\ coupons = EmptyDict
    /\ order = <<>>
    /\ nextId = 1
    /\ now = 0
    /\ req = NoRequest
    /\ resp = NoResponse
    /\ succeeded = EmptyDict
    /\ threads = [t \in ThreadIds |-> Idle]
    /\ probe \in { [stage |-> "input", c |-> CouponStored(c, 1), user |-> u,
                    cart |-> cart, eligible |-> None, amount |-> None] :
                     c \in EvalCoupons, u \in EvalUsers, cart \in Carts }

ApplyEligibility ==
    /\ probe.stage = "input"
    /\ probe' = [probe EXCEPT
                    !.stage = "eligibility",
                    !.eligible = Some(eligibility_satisfied(probe.c, probe.user,
                                                            probe.cart))]
    /\ UNCHANGED <<coupons, order, nextId, now, req, resp, succeeded, threads>>

ApplyDiscount ==
    /\ probe.stage = "input"
    /\ probe' = [probe EXCEPT
                    !.stage = "discount",
                    !.amount = Some(compute_discount_amount(
                                       probe.c, compute_cart_value(probe.cart)))]
    /\ UNCHANGED <<coupons, order, nextId, now, req, resp, succeeded, threads>>

NextEval == ApplyEligibility \/ ApplyDiscount

SpecEval == InitEval /\ [][NextEval]_vars

\* The rule set of the probed coupon has a present, empty list of tiers or
\* of countries.
HasEmptyList ==
    /\ ~IsNone(probe.c.eligibility)
    /\ \/ Val(probe.c.eligibility).allowedUserTiers = Some(<<>>)
       \/ Val(probe.c.eligibility).allowedCountries = Some(<<>>)

EmptyListsAbsent(c) ==
    IF IsNone(c.eligibility) THEN c
    ELSE LET e == Val(c.eligibility)
             absent(l) == IF l = Some(<<>>) THEN None ELSE l
         IN  [c EXCEPT !.eligibility =
                 Some([e EXCEPT !.allowedUserTiers = absent(e.allowedUserTiers),
                                !.allowedCountries = absent(e.allowedCountries)])]

\* Every predicate of the rule set other than the two lists is absent.
OnlyLists ==
    LET e == Val(probe.c.eligibility)
    IN  e = [Eligibility EXCEPT !.allowedUserTiers = e.allowedUserTiers,
                                !.allowedCountries = e.allowedCountries]

C7_DiscountInRange ==
    probe.stage = "discount" =>
        /\ Val(probe.amount) >= 0
        /\ probe.c.discountType = "FLAT" =>
              Val(probe.amount) <= compute_cart_value(probe.cart)

(***************************************************************************)
(* Redeem requests handled by concurrent threads (FastAPI runs a handler   *)
(* declared with def in a thread pool).  The handler takes no lock, so a   *)
(* thread may be preempted between the gates, the read of the count and    *)
(* the store of the count plus one.                                        *)
(***************************************************************************)
\* The stores that hold one coupon, created under the code "b".
InitConc ==
    /\ \E coupon \in CouponsFor(<<98>>) :
          LET r == create_coupon(EmptyDict, <<>>, 1, coupon)
          IN  /\ coupons = r.coupons
              /\ order = r.order
              /\ nextId = r.nextId
    /\ now = 0
    /\ req = NoRequest
    /\ resp = NoResponse
    /\ succeeded = EmptyDict
    /\ threads = [t \in ThreadIds |-> Idle]
    /\ probe = NoProbe

\* Lines 239-258: the lookup and the four gates.  A refusal is answered at
\* once; otherwise the thread goes on to the increment.
RedeemGates(t, rawCode, user, cart) ==
    LET r == redeem(coupons, rawCode, user, cart, now)
        key == Normalize(rawCode)
    IN  /\ threads[t].pc = "idle"
        /\ r.resp.status = 200 => UsageGet(coupons[key], user.userId) < MaxUses
        /\ IF r.resp.status = 200
           THEN /\ threads' = [threads EXCEPT ![t] =
                      [pc |-> "read", key |-> key, rawCode |-> rawCode,
                       user |-> user, cart |-> cart, resp |-> r.resp]]
                /\ UNCHANGED <<req, resp>>
           ELSE /\ req' = [op |-> "redeem", code |-> rawCode, user |-> user,
                           cart |-> cart]
                /\ resp' = r.resp
                /\ UNCHANGED threads
        /\ UNCHANGED <<coupons, order, nextId, now, succeeded, probe>>

\* Line 261, right-hand side: c.usage_count.get(user.userId, 0)
RedeemRead(t) ==
    /\ threads[t].pc = "read"
    /\ threads' = [threads EXCEPT ![t] =
          [pc |-> "write", key |-> threads[t].key, rawCode |-> threads[t].rawCode,
           user |-> threads[t].user, cart |-> threads[t].cart,
           resp |-> threads[t].resp,
           used |-> UsageGet(coupons[threads[t].key], threads[t].user.userId)]]
    /\ UNCHANGED <<coupons, order, nextId, now, req, resp, succeeded, probe>>

\* Line 261, the store into c.usage_count, and the return of line 263.
RedeemWrite(t) ==
    LET th == threads[t]
        c == coupons[th.key]
    IN  /\ th.pc = "write"
        /\ coupons' = Put(coupons, th.key,
              [c EXCEPT !.usage_count = Put(c.usage_count, th.user.userId,
                                            th.used + 1)])
        /\ req' = [op |-> "redeem", code |-> th.rawCode, user |-> th.user,
                   cart |-> th.cart]
        /\ resp' = th.resp
        /\ succeeded' = Put(succeeded, <<th.key, th.user.userId>>,
                            SucceededGet(th.key, th.user.userId) + 1)
        /\ threads' = [threads EXCEPT ![t] = Idle]
        /\ UNCHANGED <<order, nextId, now, probe>>

TickConc ==
    /\ now < MaxTime
    /\ now' = now + 1
    /\ UNCHANGED <<coupons, order, nextId, req, resp, succeeded, threads, probe>>

NextConc ==
    \/ \E t \in ThreadIds, user \in Users, cart \in Carts :
          RedeemGates(t, <<98>>, user, cart)
    \/ \E t \in ThreadIds : RedeemRead(t)
    \/ \E t \in ThreadIds : RedeemWrite(t)
    \/ TickConc

SpecConc == InitConc /\ [][NextConc]_vars

\* C3: under concurrent redeem requests no increment is lost (once no request
\* is in flight, each ledger count equals the number of redemptions reported
\* as successful) and no ledger count exceeds usageLimitPerUser.
C3_AtomicRedeem ==
    \A k \in DOMAIN coupons, u \in Users :
        /\ (\A t \in ThreadIds : threads[t].pc = "idle") =>
              UsageGet(coupons[k], u.userId) = SucceededGet(k, u.userId)
        /\ (HasLimit(coupons[k]) /\ Limit(coupons[k]) >= 0) =>
              UsageGet(coupons[k], u.userId) <= Limit(coupons[k])

=============================================================================
